---- MODULE Spec2Model ----
(***************************************************************************)
(* Model of anvil's command line front end (anvil/src/cmd.rs):             *)
(*   - clap validation of the launch parameters (NodeArgs, AnvilEvmArgs),  *)
(*   - NodeArgs::into_node_config and NodeArgs::account_generator,         *)
(*   - NodeArgs::run: spawn, the Ctrl-C handler and the await on the node  *)
(*     handle.                                                             *)
(* Option<T> is modelled as a sequence: None is <<>>, Some(x) is <<x>>.    *)
(* u64 and U256 values that take part in arithmetic or in casts are        *)
(* little-endian sequences of bytes (8 and 32 of them).                    *)
(***************************************************************************)
EXTENDS Integers, Sequences, FiniteSets, TLC

(***************************************************************************)
(* Bounds of the model                                                     *)
(***************************************************************************)
\* at most this many options of a command line differ from "no option given"
MaxDeviations == 2
\* at most this many interrupts are delivered to the process
MaxInterrupts == 2

(***************************************************************************)
(* Option                                                                  *)
(***************************************************************************)
None == <<>>
Some(x) == <<x>>
unwrap_or(o, d) == IF o = None THEN d ELSE o[1]

(***************************************************************************)
(* Fixed-width unsigned integers as little-endian byte sequences           *)
(***************************************************************************)
Base == 256
U64Bytes == 8
U256Bytes == 32
\* usize of the targets anvil is released for (x86_64, aarch64)
UsizeBytes == 8

MaxOf(S) == CHOOSE m \in S : \A x \in S : x <= m
MinOf2(a, b) == IF a <= b THEN a ELSE b
MaxOf2(a, b) == IF a >= b THEN a ELSE b

\* index of the most significant non-zero byte, 0 for the number zero
SigLen(x) ==
    LET nz == {i \in 1..Len(x) : x[i] # 0}
    IN  IF nz = {} THEN 0 ELSE MaxOf(nz)

\* a widening conversion (From<u64> for U256) or a narrowing `as` cast:
\* the low n bytes, zero-extended
Resize(x, n) == [i \in 1..n |-> IF i <= Len(x) THEN x[i] ELSE 0]

U64Zero == [i \in 1..U64Bytes |-> 0]
U64Max == [i \in 1..U64Bytes |-> Base - 1]
U256Max == [i \in 1..U256Bytes |-> Base - 1]

RECURSIVE U64FromNat(_, _)
\* the n-byte encoding of a small natural number v
U64FromNat(v, n) ==
    IF n = 0 THEN <<>> ELSE <<v % Base>> \o U64FromNat(v \div Base, n - 1)
U64(v) == U64FromNat(v, U64Bytes)

\* 10^18 = 0x0DE0B6B3A7640000
WEI_IN_ETHER == Resize(<<0, 0, 100, 167, 179, 182, 224, 13>>, U256Bytes)

RECURSIVE ColSum(_, _, _, _, _)
\* sum of a[i] * b[k+1-i] for i in lo..hi: column k of the schoolbook product
ColSum(a, b, k, i, hi) ==
    IF i > hi THEN 0 ELSE a[i] * b[k + 1 - i] + ColSum(a, b, k, i + 1, hi)

RECURSIVE Propagate(_, _, _, _, _, _, _)
\* carry propagation over the columns 1..n of the product of a and b
Propagate(a, b, la, lb, k, n, carry) ==
    IF k > n THEN <<>>
    ELSE LET t == ColSum(a, b, k, MaxOf2(1, k + 1 - lb), MinOf2(la, k)) + carry
         IN  <<t % Base>> \o Propagate(a, b, la, lb, k + 1, n, t \div Base)

\* the exact product of two byte sequences, SigLen(a) + SigLen(b) bytes long
FullMul(a, b) ==
    LET la == SigLen(a)
        lb == SigLen(b)
    IN  IF la = 0 \/ lb = 0 THEN <<>>
        ELSE Propagate(a, b, la, lb, 1, la + lb, 0)

\* U256::overflowing_mul: the product modulo 2^256 and whether it overflowed
overflowing_mul(a, b) ==
    LET p == FullMul(a, b)
    IN  [value |-> Resize(p, U256Bytes),
         overflow |-> \E i \in 1..Len(p) : i > U256Bytes /\ p[i] # 0]

\* U256::saturating_mul: the product, clamped to U256::MAX on overflow
saturating_mul(a, b) ==
    LET r == overflowing_mul(a, b)
    IN  IF r.overflow THEN U256Max ELSE r.value

(***************************************************************************)
(* Decimal notation (least significant digit first), used to state the     *)
(* expected balances independently of the byte arithmetic above            *)
(***************************************************************************)
RECURSIVE DivMod10(_, _, _, _)
\* long division of x by ten, from byte i downwards
DivMod10(x, i, rem, q) ==
    IF i = 0 THEN [q |-> q, r |-> rem]
    ELSE LET cur == rem * Base + x[i]
         IN  DivMod10(x, i - 1, cur % 10, <<cur \div 10>> \o q)

RECURSIVE ToDecimal(_)
ToDecimal(x) ==
    LET n == SigLen(x)
    IN  IF n = 0 THEN <<>>
        ELSE LET d == DivMod10(x, n, 0, <<>>)
             IN  <<d.r>> \o ToDecimal(d.q)

\* the decimal digits of d * 10^k
DecShift(d, k) == IF d = <<>> THEN <<>> ELSE [i \in 1..k |-> 0] \o d

\* d <= e for canonical decimals (no leading zeros)
DecLeq(d, e) ==
    \/ Len(d) < Len(e)
    \/ /\ Len(d) = Len(e)
       /\ \/ d = e
          \/ \E i \in 1..Len(d) :
               /\ d[i] < e[i]
               /\ \A j \in (i + 1)..Len(d) : d[j] = e[j]

DecMin(d, e) == IF DecLeq(d, e) THEN d ELSE e

(***************************************************************************)
(* The command line: one entry per option of NodeArgs and AnvilEvmArgs,    *)
(* None (or FALSE for a switch) when the option is not given               *)
(***************************************************************************)
BoolFlags == {"silent", "no_mining", "no_storage_caching"}

NoFlags ==
    [port |-> None, accounts |-> None, balance |-> None, mnemonic |-> None,
     derivation_path |-> None, server_config |-> None, silent |-> FALSE,
     hardfork |-> None, block_time |-> None, config_out |-> None,
     no_mining |-> FALSE, host |-> None, ANVIL_IP_ADDR |-> None,
     order |-> None, fork_url |-> None, fork_block_number |-> None,
     fork_retry_backoff |-> None, no_storage_caching |-> FALSE,
     gas_limit |-> None, gas_price |-> None,
     block_base_fee_per_gas |-> None, chain_id |-> None]

Flags == DOMAIN NoFlags

\* the values an option is given in the command lines that are explored
Alt(f) ==
    CASE f \in BoolFlags -> {TRUE}
      [] f = "port" -> {Some(3000)}
      [] f = "accounts" -> {Some(U64Zero), Some(U64(3))}
      [] f = "balance" ->
            {Some(U64Zero), Some(U64(1)), Some(<<0, 0, 0, 0, 1, 0, 0, 0>>),
             Some(<<239, 205, 171, 137, 103, 69, 35, 1>>), Some(U64Max)}
      [] f = "mnemonic" -> {Some("abandon abandon about")}
      [] f = "derivation_path" -> {Some("m/44'/60'/1'/0/")}
      [] f = "server_config" -> {Some("no_cors")}
      [] f = "hardfork" -> {Some("london")}
      [] f = "block_time" -> {Some(12)}
      [] f = "config_out" -> {Some("out.json")}
      [] f = "host" -> {Some("0.0.0.0")}
      [] f = "ANVIL_IP_ADDR" -> {Some("10.0.0.1")}
      [] f = "order" -> {Some("fifo")}
      [] f = "fork_url" -> {Some("http://localhost:8546")}
      [] f = "fork_block_number" -> {Some(14000000)}
      [] f = "fork_retry_backoff" -> {Some(1000)}
      [] f = "gas_limit" -> {Some(30000000)}
      [] f = "gas_price" -> {Some(2000000000)}
      [] f = "block_base_fee_per_gas" -> {Some(7)}
      [] f = "chain_id" -> {Some(1)}

RECURSIVE CommandLines(_)
\* the command lines that give at most k options
CommandLines(k) ==
    IF k = 0 THEN {NoFlags}
    ELSE LET fewer == CommandLines(k - 1)
         IN  fewer \cup
             UNION { UNION { {[r EXCEPT ![f] = v] : v \in Alt(f)} : f \in Flags }
                     : r \in fewer }

\* whether option f occurs on the command line
Supplied(r, f) == IF f \in BoolFlags THEN r[f] = TRUE ELSE r[f] # None

(***************************************************************************)
(* clap's declarative constraints and defaults                             *)
(***************************************************************************)
DefaultPort == 8545
DefaultAccounts == 10
DefaultBalance == 10000
DefaultHardfork == "latest"
DefaultOrder == "fees"
DefaultServerConfig == "default"

\* a mutant of Conflicts: --no-mining declares no conflict
NoConflicts == {}

\* #[clap(conflicts_with = ...)]: <<option, the option it conflicts with>>
Conflicts == {<<"no_mining", "block_time">>}

\* a mutant of Requires: only --fork-block-number declares its requirement
RequiresBlockNumberOnly == {<<"fork_block_number", "fork_url">>}

\* #[clap(requires = ...)]: <<option, the option it requires>>
Requires ==
    {<<"fork_block_number", "fork_url">>,
     <<"fork_retry_backoff", "fork_url">>,
     <<"no_storage_caching", "fork_url">>}

ConflictsHit(r) == {c \in Conflicts : Supplied(r, c[1]) /\ Supplied(r, c[2])}
RequiresHit(r) == {q \in Requires : Supplied(r, q[1]) /\ ~Supplied(r, q[2])}

\* the AnvilEvmArgs clap builds from a command line
ParseEvmArgs(r) ==
    [fork_url |-> r.fork_url,
     fork_block_number |-> r.fork_block_number,
     fork_retry_backoff |-> r.fork_retry_backoff,
     no_storage_caching |-> r.no_storage_caching,
     gas_limit |-> r.gas_limit,
     gas_price |-> r.gas_price,
     block_base_fee_per_gas |-> r.block_base_fee_per_gas,
     chain_id |-> r.chain_id]

\* the NodeArgs clap builds from a command line
ParseNodeArgs(r) ==
    [evm_opts |-> ParseEvmArgs(r),
     port |-> unwrap_or(r.port, DefaultPort),
     accounts |-> unwrap_or(r.accounts, U64(DefaultAccounts)),
     balance |-> unwrap_or(r.balance, U64(DefaultBalance)),
     mnemonic |-> r.mnemonic,
     derivation_path |-> r.derivation_path,
     server_config |-> unwrap_or(r.server_config, DefaultServerConfig),
     silent |-> r.silent,
     hardfork |-> unwrap_or(r.hardfork, DefaultHardfork),
     block_time |-> r.block_time,
     config_out |-> r.config_out,
     no_mining |-> r.no_mining,
     host |-> IF r.host # None THEN r.host ELSE r.ANVIL_IP_ADDR,
     order |-> unwrap_or(r.order, DefaultOrder)]

\* clap's validation: conflicts are reported before missing requirements
ParseError(r) ==
    IF ConflictsHit(r) # {}
    THEN Some([kind |-> "ArgumentConflict",
               options |-> UNION {{c[1], c[2]} : c \in ConflictsHit(r)}])
    ELSE IF RequiresHit(r) # {}
    THEN Some([kind |-> "MissingRequiredArgument",
               options |-> {q[2] : q \in RequiresHit(r)}])
    ELSE None

(***************************************************************************)
(* NodeConfig and AccountGenerator (crate::config)                         *)
(***************************************************************************)
CHAIN_ID == 31337
DEFAULT_MNEMONIC == "test test test test test test test test test test test junk"
DEFAULT_DERIVATION_PATH == "m/44'/60'/0'/0/"

from_secs(s) == [secs |-> s, nanos |-> 0]

AccountGeneratorNew(amount) ==
    [amount |-> amount, phrase |-> "", derivation_path |-> DEFAULT_DERIVATION_PATH,
     chain_id |-> CHAIN_ID]
gen_phrase(g, p) == [g EXCEPT !.phrase = p]
gen_chain_id(g, id) == [g EXCEPT !.chain_id = id]
gen_derivation_path(g, d) == [g EXCEPT !.derivation_path = d]

NodeConfigDefault ==
    [gas_limit |-> None, gas_price |-> None, hardfork |-> DefaultHardfork,
     block_time |-> None, no_mining |-> FALSE,
     account_generator |-> gen_phrase(AccountGeneratorNew(U64(DefaultAccounts)),
                                      DEFAULT_MNEMONIC),
     genesis_balance |-> saturating_mul(WEI_IN_ETHER, Resize(U64(DefaultBalance), U256Bytes)),
     port |-> DefaultPort, eth_rpc_url |-> None, base_fee |-> None,
     fork_block_number |-> None, no_storage_caching |-> FALSE,
     server_config |-> DefaultServerConfig, host |-> None, silent |-> FALSE,
     config_out |-> None, chain_id |-> CHAIN_ID, transaction_order |-> DefaultOrder]

with_gas_limit(c, v) == [c EXCEPT !.gas_limit = v]
with_gas_price(c, v) == [c EXCEPT !.gas_price = v]
with_hardfork(c, v) == [c EXCEPT !.hardfork = v]
with_blocktime(c, v) == [c EXCEPT !.block_time = v]
with_no_mining(c, v) == [c EXCEPT !.no_mining = v]
with_account_generator(c, v) == [c EXCEPT !.account_generator = v]
with_genesis_balance(c, v) == [c EXCEPT !.genesis_balance = v]
with_port(c, v) == [c EXCEPT !.port = v]
with_eth_rpc_url(c, v) == [c EXCEPT !.eth_rpc_url = v]
with_base_fee(c, v) == [c EXCEPT !.base_fee = v]
with_fork_block_number(c, v) == [c EXCEPT !.fork_block_number = v]
with_storage_caching(c, v) == [c EXCEPT !.no_storage_caching = v]
with_server_config(c, v) == [c EXCEPT !.server_config = v]
with_host(c, v) == [c EXCEPT !.host = v]
set_silent(c, v) == [c EXCEPT !.silent = v]
set_config_out(c, v) == [c EXCEPT !.config_out = v]
with_chain_id(c, v) == [c EXCEPT !.chain_id = v]
with_transaction_order(c, v) == [c EXCEPT !.transaction_order = v]

\* Option::map(Duration::from_secs)
map_from_secs(o) == IF o = None THEN None ELSE Some(from_secs(o[1]))

(***************************************************************************)
(* impl NodeArgs                                                           *)
(***************************************************************************)
\* a mutant of account_generator: the generator keeps its default chain id
account_generator_default_chain(self) ==
    LET g0 == gen_phrase(AccountGeneratorNew(Resize(self.accounts, UsizeBytes)),
                         DEFAULT_MNEMONIC)
        g1 == IF self.mnemonic # None THEN gen_phrase(g0, self.mnemonic[1]) ELSE g0
        g2 == IF self.derivation_path # None
              THEN gen_derivation_path(g1, self.derivation_path[1])
              ELSE g1
    IN  g2

\* NodeArgs::account_generator
account_generator(self) ==
    LET g0 == gen_chain_id(
                  gen_phrase(AccountGeneratorNew(Resize(self.accounts, UsizeBytes)),
                             DEFAULT_MNEMONIC),
                  unwrap_or(self.evm_opts.chain_id, CHAIN_ID))
        g1 == IF self.mnemonic # None THEN gen_phrase(g0, self.mnemonic[1]) ELSE g0
        g2 == IF self.derivation_path # None
              THEN gen_derivation_path(g1, self.derivation_path[1])
              ELSE g1
    IN  g2

\* a mutant of genesis_balance: the product is taken in 64 bits, then widened
genesis_balance_u64(self) ==
    Resize(Resize(FullMul(WEI_IN_ETHER, self.balance), U64Bytes), U256Bytes)

\* a mutant of genesis_balance: the balance is not converted to wei
genesis_balance_unscaled(self) == Resize(self.balance, U256Bytes)

\* let genesis_balance = WEI_IN_ETHER.saturating_mul(self.balance.into())
genesis_balance(self) == saturating_mul(WEI_IN_ETHER, Resize(self.balance, U256Bytes))

\* NodeArgs::into_node_config
into_node_config(self) ==
    LET c01 == with_gas_limit(NodeConfigDefault, self.evm_opts.gas_limit)
        c02 == with_gas_price(c01, self.evm_opts.gas_price)
        c03 == with_hardfork(c02, self.hardfork)
        c04 == with_blocktime(c03, map_from_secs(self.block_time))
        c05 == with_no_mining(c04, self.no_mining)
        c06 == with_account_generator(c05, account_generator(self))
        c07 == with_genesis_balance(c06, genesis_balance(self))
        c08 == with_port(c07, self.port)
        c09 == with_eth_rpc_url(c08, self.evm_opts.fork_url)
        c10 == with_base_fee(c09, self.evm_opts.block_base_fee_per_gas)
        c11 == with_fork_block_number(c10, self.evm_opts.fork_block_number)
        c12 == with_storage_caching(c11, self.evm_opts.no_storage_caching)
        c13 == with_server_config(c12, self.server_config)
        c14 == with_host(c13, self.host)
        c15 == set_silent(c14, self.silent)
        c16 == set_config_out(c15, self.config_out)
        c17 == with_chain_id(c16, unwrap_or(self.evm_opts.chain_id, CHAIN_ID))
        c18 == with_transaction_order(c17, self.order)
    IN  c18

(***************************************************************************)
(* State                                                                   *)
(***************************************************************************)
VARIABLES
    raw,        \* the command line
    args,       \* Option<NodeArgs>: the validated arguments
    err,        \* Option<clap::Error>: the usage error
    mpc,        \* where the main task is
    config,     \* Option<NodeConfig>: the result of into_node_config
    runtime,    \* Option: the spawned node, its config and its fork
    handler,    \* Option: the installed Ctrl-C handler and the fork it captured
    fork,       \* `fork` of run: api.get_fork().cloned()
    running,    \* the AtomicUsize `running` of run
    hpc,        \* where each handler invocation is
    prev,       \* `prev` of each handler invocation, None before the fetch_add
    dbWriter,   \* whether a node task holds fork.database exclusively
    dbReaders,  \* how many read guards of fork.database are alive
    flushes,    \* the flush_cache calls made so far: who made them, the outcome
    exit        \* Option: how the process ended and its exit code

vars == <<raw, args, err, mpc, config, runtime, handler, fork, running, hpc, prev,
          dbWriter, dbReaders, flushes, exit>>

Invocations == 1..MaxInterrupts
FlushOutcomes == {"written", "failed"}

Running == exit = None

InitWith(lines) ==
    /\ raw \in lines
    /\ args = None
    /\ err = None
    /\ mpc = "parse"
    /\ config = None
    /\ runtime = None
    /\ handler = None
    /\ fork = None
    /\ running = 0
    /\ hpc = [i \in Invocations |-> "idle"]
    /\ prev = [i \in Invocations |-> None]
    /\ dbWriter = FALSE
    /\ dbReaders = 0
    /\ flushes = <<>>
    /\ exit = None

\* the command lines `run` is explored with
RunCommandLines ==
    {NoFlags,
     [NoFlags EXCEPT !.fork_url = Some("http://localhost:8546")],
     [NoFlags EXCEPT !.fork_url = Some("http://localhost:8546"),
                     !.no_storage_caching = TRUE]}

Init == InitWith(RunCommandLines)
ArgsInit == InitWith(CommandLines(MaxDeviations))

ExitWith(by, code, id) == exit' = Some([by |-> by, code |-> code, id |-> id])

(***************************************************************************)
(* The main task                                                           *)
(***************************************************************************)
\* NodeArgs::parse(): a usage error ends the process before any node starts
Parse ==
    /\ Running
    /\ mpc = "parse"
    /\ IF ParseError(raw) # None
       THEN /\ err' = ParseError(raw)
            /\ mpc' = "usage_error"
            /\ ExitWith("usage", 2, 0)
            /\ UNCHANGED args
       ELSE /\ args' = Some(ParseNodeArgs(raw))
            /\ mpc' = "config"
            /\ UNCHANGED <<err, exit>>
    /\ UNCHANGED <<raw, config, runtime, handler, fork, running, hpc, prev,
                   dbWriter, dbReaders, flushes>>

\* self.into_node_config()
IntoNodeConfig ==
    /\ Running
    /\ mpc = "config"
    /\ config' = Some(into_node_config(args[1]))
    /\ mpc' = "spawn"
    /\ UNCHANGED <<raw, args, err, runtime, handler, fork, running, hpc, prev,
                   dbWriter, dbReaders, flushes, exit>>

\* the fork of a node spawned with config c: present iff a fork url is set
ForkOf(c) ==
    IF c.eth_rpc_url # None THEN Some([eth_rpc_url |-> c.eth_rpc_url[1]]) ELSE None

\* let (api, handle) = crate::spawn(config).await
Spawn ==
    /\ Running
    /\ mpc = "spawn"
    /\ runtime' = Some([config |-> config[1], fork |-> ForkOf(config[1])])
    /\ mpc' = "get_fork"
    /\ UNCHANGED <<raw, args, err, config, handler, fork, running, hpc, prev,
                   dbWriter, dbReaders, flushes, exit>>

\* a mutant of GetFork: the handler is given no fork
GetForkNone ==
    /\ Running
    /\ mpc = "get_fork"
    /\ fork' = None
    /\ running' = 0
    /\ mpc' = "set_handler"
    /\ UNCHANGED <<raw, args, err, config, runtime, handler, hpc, prev,
                   dbWriter, dbReaders, flushes, exit>>

\* let fork = api.get_fork().cloned(); let running = Arc::new(AtomicUsize::new(0))
GetFork ==
    /\ Running
    /\ mpc = "get_fork"
    /\ fork' = runtime[1].fork
    /\ running' = 0
    /\ mpc' = "set_handler"
    /\ UNCHANGED <<raw, args, err, config, runtime, handler, hpc, prev,
                   dbWriter, dbReaders, flushes, exit>>

\* ctrlc::set_handler(move || ...) returns Ok: the closure owns fork and running
SetHandlerOk ==
    /\ Running
    /\ mpc = "set_handler"
    /\ handler' = Some([fork |-> fork])
    /\ mpc' = "await"
    /\ UNCHANGED <<raw, args, err, config, runtime, fork, running, hpc, prev,
                   dbWriter, dbReaders, flushes, exit>>

\* ctrlc::set_handler returns Err: .expect("Error setting Ctrl-C handler") panics
SetHandlerErr ==
    /\ Running
    /\ mpc = "set_handler"
    /\ mpc' = "panicked"
    /\ ExitWith("panic", 101, 0)
    /\ UNCHANGED <<raw, args, err, config, runtime, handler, fork, running, hpc,
                   prev, dbWriter, dbReaders, flushes>>

\* Ok(handle.await??): the node handle resolves and run returns its result
HandleResolves ==
    /\ Running
    /\ mpc = "await"
    /\ mpc' = "returned"
    /\ \E code \in {0, 1} : ExitWith("main", code, 0)
    /\ UNCHANGED <<raw, args, err, config, runtime, handler, fork, running, hpc,
                   prev, dbWriter, dbReaders, flushes>>

(***************************************************************************)
(* Interrupts and the Ctrl-C handler                                       *)
(***************************************************************************)
\* an interrupt while no handler is installed: the default disposition
InterruptDefault ==
    /\ Running
    /\ handler = None
    /\ ExitWith("sigint", 130, 0)
    /\ UNCHANGED <<raw, args, err, mpc, config, runtime, handler, fork, running,
                   hpc, prev, dbWriter, dbReaders, flushes>>

\* an interrupt while the handler is installed: the closure is invoked
Interrupt(i) ==
    /\ Running
    /\ handler # None
    /\ hpc[i] = "idle"
    /\ \A j \in Invocations : j < i => hpc[j] # "idle"
    /\ hpc' = [hpc EXCEPT ![i] = "fetch_add"]
    /\ UNCHANGED <<raw, args, err, mpc, config, runtime, handler, fork, running,
                   prev, dbWriter, dbReaders, flushes, exit>>

\* a mutant of FetchAdd: a plain load, the counter is not incremented
FetchAddLoad(i) ==
    /\ Running
    /\ hpc[i] = "fetch_add"
    /\ prev' = [prev EXCEPT ![i] = Some(running)]
    /\ hpc' = [hpc EXCEPT ![i] = "check"]
    /\ UNCHANGED <<raw, args, err, mpc, config, runtime, handler, fork, running,
                   dbWriter, dbReaders, flushes, exit>>

\* let prev = running.fetch_add(1, Ordering::SeqCst)
FetchAdd(i) ==
    /\ Running
    /\ hpc[i] = "fetch_add"
    /\ prev' = [prev EXCEPT ![i] = Some(running)]
    /\ running' = running + 1
    /\ hpc' = [hpc EXCEPT ![i] = "check"]
    /\ UNCHANGED <<raw, args, err, mpc, config, runtime, handler, fork,
                   dbWriter, dbReaders, flushes, exit>>

\* a mutant of Check: the first invocation exits without flushing
CheckNoFlush(i) ==
    /\ Running
    /\ hpc[i] = "check"
    /\ hpc' = [hpc EXCEPT ![i] = IF prev[i][1] = 0 THEN "exit" ELSE "returned"]
    /\ UNCHANGED <<raw, args, err, mpc, config, runtime, handler, fork, running,
                   prev, dbWriter, dbReaders, flushes, exit>>

\* if prev == 0 { if let Some(ref fork) = fork { ... } ... }
Check(i) ==
    /\ Running
    /\ hpc[i] = "check"
    /\ hpc' = [hpc EXCEPT ![i] =
                  IF prev[i][1] = 0
                  THEN IF handler[1].fork # None THEN "read" ELSE "exit"
                  ELSE "returned"]
    /\ UNCHANGED <<raw, args, err, mpc, config, runtime, handler, fork, running,
                   prev, dbWriter, dbReaders, flushes, exit>>

\* fork.database.read(): granted while no task holds the lock exclusively
ReadLock(i) ==
    /\ Running
    /\ hpc[i] = "read"
    /\ ~dbWriter
    /\ dbReaders' = dbReaders + 1
    /\ hpc' = [hpc EXCEPT ![i] = "flush"]
    /\ UNCHANGED <<raw, args, err, mpc, config, runtime, handler, fork, running,
                   prev, dbWriter, flushes, exit>>

\* .flush_cache(): its outcome is not returned to the handler
FlushCache(i) ==
    /\ Running
    /\ hpc[i] = "flush"
    /\ \E o \in FlushOutcomes : flushes' = Append(flushes, [by |-> i, outcome |-> o])
    /\ hpc' = [hpc EXCEPT ![i] = "unlock"]
    /\ UNCHANGED <<raw, args, err, mpc, config, runtime, handler, fork, running,
                   prev, dbWriter, dbReaders, exit>>

\* the read guard is dropped at the end of the statement
ReadUnlock(i) ==
    /\ Running
    /\ hpc[i] = "unlock"
    /\ dbReaders' = dbReaders - 1
    /\ hpc' = [hpc EXCEPT ![i] = "exit"]
    /\ UNCHANGED <<raw, args, err, mpc, config, runtime, handler, fork, running,
                   prev, dbWriter, flushes, exit>>

\* a mutant of Exit: the process exits only after a flush that succeeded
ExitIfFlushed(i) ==
    /\ Running
    /\ hpc[i] = "exit"
    /\ \E k \in 1..Len(flushes) : flushes[k].outcome = "written"
    /\ hpc' = [hpc EXCEPT ![i] = "exited"]
    /\ ExitWith("handler", 0, i)
    /\ UNCHANGED <<raw, args, err, mpc, config, runtime, handler, fork, running,
                   prev, dbWriter, dbReaders, flushes>>

\* std::process::exit(0)
Exit(i) ==
    /\ Running
    /\ hpc[i] = "exit"
    /\ hpc' = [hpc EXCEPT ![i] = "exited"]
    /\ ExitWith("handler", 0, i)
    /\ UNCHANGED <<raw, args, err, mpc, config, runtime, handler, fork, running,
                   prev, dbWriter, dbReaders, flushes>>

(***************************************************************************)
(* The node's tasks, which lock the fork database exclusively              *)
(***************************************************************************)
WriteLock ==
    /\ Running
    /\ runtime # None
    /\ runtime[1].fork # None
    /\ ~dbWriter
    /\ dbReaders = 0
    /\ dbWriter' = TRUE
    /\ UNCHANGED <<raw, args, err, mpc, config, runtime, handler, fork, running,
                   hpc, prev, dbReaders, flushes, exit>>

WriteUnlock ==
    /\ Running
    /\ dbWriter
    /\ dbWriter' = FALSE
    /\ UNCHANGED <<raw, args, err, mpc, config, runtime, handler, fork, running,
                   hpc, prev, dbReaders, flushes, exit>>

(***************************************************************************)
(* Specifications                                                          *)
(***************************************************************************)
HandlerStep(i) ==
    \/ FetchAdd(i)
    \/ Check(i)
    \/ ReadLock(i)
    \/ FlushCache(i)
    \/ ReadUnlock(i)
    \/ Exit(i)

Next ==
    \/ Parse
    \/ IntoNodeConfig
    \/ Spawn
    \/ GetFork
    \/ SetHandlerOk
    \/ SetHandlerErr
    \/ HandleResolves
    \/ InterruptDefault
    \/ \E i \in Invocations : Interrupt(i)
    \/ \E i \in Invocations : HandlerStep(i)
    \/ WriteLock
    \/ WriteUnlock

\* NodeArgs::run for a few command lines, under every schedule
Spec == Init /\ [][Next]_vars

\* the handler's thread and the node's tasks keep running; a reader is
\* eventually granted a lock that is released again and again
Fairness ==
    /\ \A i \in Invocations :
          /\ WF_vars(FetchAdd(i))
          /\ WF_vars(Check(i))
          /\ SF_vars(ReadLock(i))
          /\ WF_vars(FlushCache(i))
          /\ WF_vars(ReadUnlock(i))
          /\ WF_vars(Exit(i))
    /\ WF_vars(WriteUnlock)

LiveSpec == Init /\ [][Next]_vars /\ Fairness

\* validation and configuration of every command line within the bound
ArgsNext == Parse \/ IntoNodeConfig

ArgsSpec == ArgsInit /\ [][ArgsNext]_vars

(***************************************************************************)
(* Properties of the shutdown handler (Spec, LiveSpec)                     *)
(***************************************************************************)
\* the invocations whose fetch_add has returned, and those it returned 0 to
Observed == {i \in Invocations : prev[i] # None}
Firsts == {i \in Invocations : prev[i] = Some(0)}
FlushedBy(i) == \E k \in 1..Len(flushes) : flushes[k].by = i
ExitedByHandler == exit # None /\ exit[1].by = "handler"
ForkMode == runtime # None /\ runtime[1].fork # None
FlushPending == \E i \in Invocations : hpc[i] \in {"read", "flush", "unlock"}

\* C1: among any number of handler invocations, in any interleaving, the
\* fetch_add returns 0 to exactly one of them; at most one flush_cache is
\* performed and at most one invocation reaches the exit; an invocation that
\* saw a non-zero value neither flushes nor exits.
C1_OneFirstInvocation ==
    /\ Observed # {} => Cardinality(Firsts) = 1
    /\ Observed = {} => Firsts = {}
    /\ Len(flushes) <= 1
    /\ Cardinality({i \in Invocations : hpc[i] \in {"exit", "exited"}}) <= 1
    /\ \A i \in Observed \ Firsts :
          /\ hpc[i] \in {"check", "returned"}
          /\ ~FlushedBy(i)
          /\ exit # None => exit[1].id # i

\* two invocations ran: one saw 0, flushed and exited, the other saw 1 and returned
C1_Witness ==
    \E i, j \in Invocations :
        /\ prev[i] = Some(0)
        /\ prev[j] = Some(1)
        /\ hpc[j] = "returned"
        /\ FlushedBy(i)
        /\ exit # None /\ exit[1].id = i

\* C2: on the first-interrupt path, in fork mode the flush has completed (and
\* its read guard is dropped) before the handler exits the process, whatever
\* further interrupts arrive; outside fork mode no flush is ever performed and
\* the handler goes from the check straight to the exit.
C2_FlushBeforeExit ==
    /\ (ExitedByHandler /\ ForkMode) =>
          /\ Len(flushes) = 1
          /\ flushes[1].by = exit[1].id
          /\ dbReaders = 0
    /\ ExitedByHandler => ~FlushPending
    /\ (runtime # None /\ runtime[1].fork = None) =>
          /\ flushes = <<>>
          /\ ~FlushPending

\* fork mode: the handler exited after its flush, a later interrupt did nothing
C2_Witness ==
    /\ ExitedByHandler
    /\ ForkMode
    /\ Len(flushes) = 1
    /\ \E j \in Invocations : j # exit[1].id /\ hpc[j] \in {"check", "returned"}

FirstObserved == Firsts # {}
ExitedSuccess == exit # None /\ exit[1].code = 0
Ended ==
    /\ exit # None
    /\ \/ exit[1].by = "handler" /\ exit[1].code = 0
       \/ exit[1].by = "main"

\* C3 as stated: once the first interrupt is observed by the armed handler,
\* the process eventually exits with status 0, provided the read lock is
\* eventually granted.
C3_EventuallyExitsZero == FirstObserved ~> ExitedSuccess

\* C3 as amended: once the first interrupt is observed, the process eventually
\* ends, provided the read lock is eventually granted: through the handler's
\* exit(0), whatever the outcome of the flush, unless the awaited node handle
\* resolves first and run returns the node's result.
C3_EventuallyEnds == FirstObserved ~> Ended

\* the handler exited with status 0 after a flush that failed
C3_Witness ==
    /\ FirstObserved
    /\ ExitedByHandler
    /\ exit[1].code = 0
    /\ Len(flushes) = 1
    /\ flushes[1].outcome = "failed"

\* C8: in run, the configuration is built, then the node is spawned with it,
\* then the handler is armed, then the main task awaits the node handle; no
\* flush and no exit(0) of the handler happens before the node is spawned, and
\* the fork the handler captured is the one the spawned node exposes.
C8_StartupOrder ==
    /\ runtime # None => (config # None /\ runtime[1].config = config[1])
    /\ handler # None => (runtime # None /\ handler[1].fork = runtime[1].fork)
    /\ mpc = "await" => handler # None
    /\ handler = None => (Observed = {} /\ \A i \in Invocations : hpc[i] = "idle")
    /\ (flushes # <<>> \/ ExitedByHandler) => (runtime # None /\ handler # None)
    /\ (exit # None /\ runtime = None) => exit[1].code # 0

\* the main task awaits a forking node while the armed handler flushes its fork
C8_Witness ==
    /\ mpc = "await"
    /\ handler # None
    /\ handler[1].fork # None
    /\ flushes # <<>>

(***************************************************************************)
(* Properties of validation and configuration (ArgsSpec)                   *)
(***************************************************************************)
Parsed == mpc # "parse"
BothMining == Supplied(raw, "block_time") /\ Supplied(raw, "no_mining")
ForkOnly == {"fork_block_number", "fork_retry_backoff", "no_storage_caching"}

\* C4: validation fails, and no NodeArgs is produced, whenever both
\* --block-time and --no-mining are given; with one of them or neither it does
\* not fail on this constraint.
C4_MiningConflict ==
    Parsed =>
       /\ BothMining =>
             /\ args = None
             /\ config = None
             /\ mpc = "usage_error"
             /\ err # None
             /\ err[1].kind = "ArgumentConflict"
             /\ {"block_time", "no_mining"} \subseteq err[1].options
       /\ ~BothMining => (err = None \/ err[1].kind # "ArgumentConflict")
       /\ (~BothMining /\ RequiresHit(raw) = {}) => (args # None /\ err = None)

\* both options were given and validation failed
C4_Witness == Parsed /\ BothMining /\ err # None

\* C5: each fork-only option given without --fork-url fails validation, with
\* an error that names the missing fork url (when no conflict is reported
\* first); given with --fork-url it passes this constraint; so validated
\* arguments without a fork url have no fork-only option set.
C5_ForkOnlyOptions ==
    Parsed =>
       /\ \A f \in ForkOnly :
             /\ (Supplied(raw, f) /\ ~Supplied(raw, "fork_url")) =>
                   /\ args = None
                   /\ err # None
                   /\ ~BothMining =>
                         /\ err[1].kind = "MissingRequiredArgument"
                         /\ "fork_url" \in err[1].options
             /\ (Supplied(raw, f) /\ Supplied(raw, "fork_url")) =>
                   /\ err = None \/ err[1].kind # "MissingRequiredArgument"
                   /\ ~BothMining => args # None
       /\ (args # None /\ args[1].evm_opts.fork_url = None) =>
             /\ args[1].evm_opts.fork_block_number = None
             /\ args[1].evm_opts.fork_retry_backoff = None
             /\ args[1].evm_opts.no_storage_caching = FALSE

\* --fork-retry-backoff was given without --fork-url and validation failed
C5_Witness ==
    /\ Parsed
    /\ Supplied(raw, "fork_retry_backoff")
    /\ ~Supplied(raw, "fork_url")
    /\ err # None
    /\ err[1].kind = "MissingRequiredArgument"

Configured == config # None

\* C6: for every accepted balance b, the genesis balance is
\* min(b * 10^18, U256::MAX): it does not wrap; into_node_config does not
\* abort; b = 1 gives 10^18 and b = 0 gives 0.
C6_GenesisBalance ==
    /\ mpc = "spawn" => Configured
    /\ Configured =>
          /\ ToDecimal(config[1].genesis_balance)
                = DecMin(DecShift(ToDecimal(args[1].balance), 18), ToDecimal(U256Max))
          /\ args[1].balance = U64(1) => config[1].genesis_balance = WEI_IN_ETHER
          /\ args[1].balance = U64Zero =>
                config[1].genesis_balance = Resize(U64Zero, U256Bytes)

\* a balance of 2^32, whose product with 10^18 does not fit 64 bits
C6_Witness ==
    /\ Configured
    /\ raw.balance = Some(<<0, 0, 0, 0, 1, 0, 0, 0>>)
    /\ SigLen(config[1].genesis_balance) > U64Bytes

\* 18446744073709551615, least significant digit first
U64MaxDecimal == <<5, 1, 6, 1, 5, 5, 9, 0, 7, 3, 7, 0, 4, 4, 7, 6, 4, 4, 8, 1>>

\* C7 as stated: with the largest accepted balance, the genesis balance is
\* the largest U256 value.
C7_SaturatesAtMax ==
    (Configured /\ args[1].balance = U64Max) => config[1].genesis_balance = U256Max

\* C7 as amended: with the largest accepted balance, u64::MAX, the genesis
\* balance is exactly u64::MAX * 10^18, which is below the largest U256
\* value: the multiplication neither saturates nor wraps.
C7_MaxBalanceExact ==
    (Configured /\ args[1].balance = U64Max) =>
       /\ ToDecimal(config[1].genesis_balance) = DecShift(U64MaxDecimal, 18)
       /\ config[1].genesis_balance # U256Max
       /\ ~DecLeq(ToDecimal(U256Max), ToDecimal(config[1].genesis_balance))

\* the largest balance was configured
C7_Witness == Configured /\ raw.balance = Some(U64Max)

\* C9: the account generator has the accounts argument as its count, the
\* explicit mnemonic or else DEFAULT_MNEMONIC as its phrase, the explicit
\* derivation path or else the generator's default, and the explicit chain id
\* or else CHAIN_ID, which is also the chain id of the NodeConfig.
C9_AccountGenerator ==
    Configured =>
       LET g == config[1].account_generator
       IN  /\ g.amount = args[1].accounts
           /\ g.amount = unwrap_or(raw.accounts, U64(DefaultAccounts))
           /\ g.phrase = unwrap_or(raw.mnemonic, DEFAULT_MNEMONIC)
           /\ g.derivation_path = unwrap_or(raw.derivation_path, DEFAULT_DERIVATION_PATH)
           /\ g.chain_id = unwrap_or(raw.chain_id, CHAIN_ID)
           /\ g.chain_id = config[1].chain_id

\* an explicit mnemonic and an explicit chain id were configured
C9_Witness ==
    /\ Configured
    /\ raw.mnemonic # None
    /\ raw.chain_id # None
    /\ config[1].account_generator.chain_id = 1

\* the options C10 lists as carried into the NodeConfig
PassThrough ==
    {"gas_limit", "gas_price", "block_base_fee_per_gas", "hardfork", "block_time",
     "no_mining", "port", "fork_url", "fork_block_number", "fork_retry_backoff",
     "no_storage_caching", "server_config", "host", "silent", "config_out", "order"}

\* the validated arguments that differ from r's in option f alone
Variants(r, f) ==
    {ParseNodeArgs(r2) :
        r2 \in {x \in {[r EXCEPT ![f] = v] : v \in Alt(f) \cup {NoFlags[f]}} :
                    ParseError(x) = None}}

\* C10: into_node_config carries every remaining launch parameter into the
\* NodeConfig: validated arguments that differ in one such parameter alone
\* give different NodeConfigs (and equal arguments give equal NodeConfigs).
C10_CarriesEveryOption ==
    Configured =>
       /\ \A f \in PassThrough : \A a \in Variants(raw, f) :
             a # args[1] => into_node_config(a) # config[1]
       /\ into_node_config(args[1]) = config[1]

====
